---- MODULE Spec2Model ----
(***************************************************************************)
(* A model of install/main.py, the dotfiles installer: platform detection, *)
(* the confirmation prompt, the walk over the platform's source tree, and   *)
(* the three per-file strategies (append, symlink, copy).                   *)
(*                                                                          *)
(* Text is a sequence of one-character strings, as Python reads it in text  *)
(* mode (universal newlines: every line end is "\n").  The filesystem is a  *)
(* function from a fixed set of paths to entries (nothing, regular file,   *)
(* symbolic link, directory).  Symbolic links to directories are not        *)
(* modelled.                                                                *)
(***************************************************************************)
EXTENDS Naturals, Sequences, FiniteSets, TLC

VARIABLES
  fs,          \* the filesystem: path -> entry
  unreadable,  \* source paths whose open()/readline() raises (permissions, bad UTF-8)
  system,      \* platform.system().lower()
  input,       \* the line input() returns at the prompt
  os_name,     \* detect_os()'s result ("none" before it ran)
  pc,          \* where the run stands
  queue,       \* entries rglob has still to yield
  processed,   \* source files whose iteration of the loop has begun, in order
  banner,      \* whether "Dotfiles installation complete!" was printed
  ops,         \* kinds of filesystem mutation performed so far
  fs0,         \* the filesystem at start (history)
  prev,        \* the filesystem before the last handler call (history)
  last,        \* what the last handler call was and returned (history)
  ncalls       \* number of handler calls made

vars == <<fs, unreadable, system, input, os_name, pc, queue, processed, banner,
          ops, fs0, prev, last, ncalls>>

(***************************************************************************)
(* Bounds of the model.                                                     *)
(***************************************************************************)
MaxBodyLen == 4
MaxDestLen == 3
MaxCalls == 2
MaxPad == 2

SeqsUpTo(A, n) == UNION {[1..k -> A] : k \in 0..n}

(***************************************************************************)
(* Text.                                                                    *)
(***************************************************************************)
NL == "\n"

\* str.split() and str.strip() without arguments act on whitespace.
Whitespace == {" ", "\t", NL}

APPEND_MODE_TARGET == <<">", ">", ">", "a", "p", "p", "e", "n", "d", "<", "<", "<">>

\* str.lower(), one character
lower_char(c) ==
  CASE c = "A" -> "a"
    [] c = "P" -> "p"
    [] c = "E" -> "e"
    [] c = "N" -> "n"
    [] c = "D" -> "d"
    [] c = "X" -> "x"
    [] OTHER -> c

lower(s) == [i \in 1..Len(s) |-> lower_char(s[i])]

\* Index of the first line end of s, 0 when it has none.
first_newline(s) ==
  IF \E i \in 1..Len(s) : s[i] = NL
  THEN CHOOSE i \in 1..Len(s) : s[i] = NL /\ \A j \in 1..(i-1) : s[j] # NL
  ELSE 0

\* f.readline() on a fresh file: the first line, its line end included.
readline(s) ==
  IF first_newline(s) = 0 THEN s ELSE SubSeq(s, 1, first_newline(s))

\* What f.read() returns after one f.readline().
after_first_line(s) ==
  IF first_newline(s) = 0 THEN <<>> ELSE SubSeq(s, first_newline(s) + 1, Len(s))

RECURSIVE splitlines(_)
splitlines(s) ==
  IF s = <<>> THEN <<>>
  ELSE LET i == first_newline(s)
       IN  IF i = 0 THEN <<s>>
           ELSE <<SubSeq(s, 1, i - 1)>> \o splitlines(SubSeq(s, i + 1, Len(s)))

RECURSIVE lstrip(_)
lstrip(s) ==
  IF s # <<>> /\ Head(s) \in Whitespace THEN lstrip(Tail(s)) ELSE s

RECURSIVE rstrip(_)
rstrip(s) ==
  IF s # <<>> /\ s[Len(s)] \in Whitespace THEN rstrip(SubSeq(s, 1, Len(s) - 1)) ELSE s

strip(s) == rstrip(lstrip(s))

\* Length of the leading run of non-whitespace characters of s.
RECURSIVE word_len(_)
word_len(s) ==
  IF s = <<>> \/ Head(s) \in Whitespace THEN 0 ELSE 1 + word_len(Tail(s))

\* str.split(): the maximal runs of non-whitespace characters.
RECURSIVE split(_)
split(s) ==
  LET t == lstrip(s)
  IN  IF t = <<>> THEN <<>>
      ELSE <<SubSeq(t, 1, word_len(t))>> \o split(SubSeq(t, word_len(t) + 1, Len(t)))

\* sep.join(parts), sep a sequence of characters
RECURSIVE join(_, _)
join(sep, parts) ==
  IF parts = <<>> THEN <<>>
  ELSE IF Len(parts) = 1 THEN parts[1]
  ELSE parts[1] \o sep \o join(sep, Tail(parts))

\* needle in hay
contains(needle, hay) ==
  \E i \in 0..Len(hay) :
     i + Len(needle) <= Len(hay) /\ SubSeq(hay, i + 1, i + Len(needle)) = needle

endswith_newline(s) == s # <<>> /\ s[Len(s)] = NL

(***************************************************************************)
(* The filesystem.                                                          *)
(***************************************************************************)
\* os_dir (script_dir / os_name.value) and the two source files under it
SRC == <<"src">>
SA == <<"src", "a">>
SD == <<"src", "d">>
SDB == <<"src", "d", "b">>
\* home_dir and the destinations home_dir / rel_path
HOME == <<"home">>
HA == <<"home", "a">>
HD == <<"home", "d">>
HDB == <<"home", "d", "b">>
\* where shutil.copy2 puts a file when its destination is a directory
HAA == <<"home", "a", "a">>
HDBB == <<"home", "d", "b", "b">>

Paths == {SRC, SA, SD, SDB, HOME, HA, HD, HDB, HAA, HDBB}

NoEntry == [kind |-> "none", content |-> <<>>, target |-> <<>>]
File(c) == [kind |-> "file", content |-> c, target |-> <<>>]
Link(t) == [kind |-> "link", content |-> <<>>, target |-> t]
Dir == [kind |-> "dir", content |-> <<>>, target |-> <<>>]

Parent(p) == SubSeq(p, 1, Len(p) - 1)

IsUnder(q, d) == Len(q) > Len(d) /\ SubSeq(q, 1, Len(d)) = d

\* Path.resolve() / what open() and stat() act on: the end of the link chain.
RECURSIVE Resolve(_, _)
Resolve(f, p) ==
  IF f[p].kind = "link" THEN Resolve(f, f[p].target) ELSE p

exists(f, p) == f[Resolve(f, p)].kind # "none"
is_symlink(f, p) == f[p].kind = "link"
is_file(f, p) == f[Resolve(f, p)].kind = "file"
is_dir(f, p) == f[Resolve(f, p)].kind = "dir"

\* The text open(p).read() returns.
content_of(f, p) == f[Resolve(f, p)].content

\* What a handler returns: the filesystem it leaves, whether it raised, the
\* kinds of mutation it made, and the text it wrote.
Result(f, e, o, w) == [fs |-> f, err |-> e, ops |-> o, written |-> w]

\* Path.mkdir(parents=True, exist_ok=True)
RECURSIVE mkdir(_, _)
mkdir(f, d) ==
  IF d = <<>> \/ is_dir(f, d) THEN Result(f, FALSE, {}, <<>>)
  ELSE IF f[d].kind # "none" THEN Result(f, TRUE, {}, <<>>)
  ELSE LET up == mkdir(f, Parent(d))
       IN  IF up.err THEN up
           ELSE Result([up.fs EXCEPT ![d] = Dir], FALSE, up.ops \cup {"mkdir"}, <<>>)

\* shutil.rmtree(d)
rmtree(f, d) == [q \in Paths |-> IF q = d \/ IsUnder(q, d) THEN NoEntry ELSE f[q]]

\* open(p, "a") and open(p, "wb") follow links, create a missing file in an
\* existing directory, and raise on a directory or a missing directory.
can_open_for_write(f, p) ==
  LET r == Resolve(f, p)
  IN  \/ f[r].kind = "file"
      \/ /\ f[r].kind = "none"
         /\ Len(r) = 1 \/ f[Parent(r)].kind = "dir"

(***************************************************************************)
(* should_append and read_file_content                                      *)
(***************************************************************************)
processed_line(first_line) == join(<<>>, split(lower(first_line)))

\* A faulty variant: the whole line must be the token.
marker_found_exact(line) == line = APPEND_MODE_TARGET

marker_found(line) == contains(APPEND_MODE_TARGET, line)

should_append(f, file_path) ==
  marker_found(processed_line(readline(content_of(f, file_path))))

read_file_content(f, file_path, skip_first_line) ==
  IF skip_first_line THEN after_first_line(content_of(f, file_path))
  ELSE content_of(f, file_path)

can_read(f, file_path) ==
  is_file(f, file_path) /\ Resolve(f, file_path) \notin unreadable

(***************************************************************************)
(* append_to_file                                                           *)
(***************************************************************************)
source_lines(content_to_append) ==
  SelectSeq(splitlines(content_to_append), LAMBDA line : strip(line) # <<>>)

\* A faulty variant: the destination is never read.
existing_lines_set_unread(f, destination) == {}

existing_lines_set(f, destination) ==
  IF exists(f, destination)
  THEN LET lines == splitlines(read_file_content(f, destination, FALSE))
       IN  {lines[i] : i \in 1..Len(lines)}
  ELSE {}

\* A faulty variant: every source line is taken as new.
lines_to_write_unfiltered(src_lines, existing) == src_lines

lines_to_write(src_lines, existing) ==
  SelectSeq(src_lines, LAMBDA line : line \notin existing)

\* A faulty variant: a newline is written before the new lines whenever the
\* file is not empty.
separator_always(old) == IF Len(old) > 0 THEN <<NL>> ELSE <<>>

\* "Add newline if file exists and doesn't end with one"
separator(old) ==
  IF Len(old) > 0 /\ old[Len(old)] # NL THEN <<NL>> ELSE <<>>

\* "Add a final newline if the original source content block had one"
final_newline(content_to_append) ==
  IF endswith_newline(content_to_append) THEN <<NL>> ELSE <<>>

append_to_file(f, source, destination) ==
  LET m == mkdir(f, Parent(destination))
  IN
  IF m.err \/ ~can_read(m.fs, source) THEN Result(m.fs, TRUE, m.ops, <<>>)
  ELSE
  LET content_to_append == read_file_content(m.fs, source, TRUE)
      src_lines == source_lines(content_to_append)
  IN
  IF src_lines = <<>> THEN m
  ELSE IF is_dir(m.fs, destination) THEN Result(m.fs, TRUE, m.ops, <<>>)
  ELSE
  LET new == lines_to_write(src_lines, existing_lines_set(m.fs, destination))
      r == Resolve(m.fs, destination)
      old == m.fs[r].content
      text == separator(old) \o join(<<NL>>, new) \o final_newline(content_to_append)
  IN
  IF new = <<>> THEN m
  ELSE IF ~can_open_for_write(m.fs, destination) THEN Result(m.fs, TRUE, m.ops, <<>>)
  ELSE Result([m.fs EXCEPT ![r] = File(old \o text)], FALSE,
              m.ops \cup {"append"}, text)

(***************************************************************************)
(* create_symlink                                                           *)
(***************************************************************************)
\* "if force and destination.exists()": the prior entry is removed.
remove_existing(f, destination) ==
  IF exists(f, destination)
  THEN IF is_symlink(f, destination) \/ is_file(f, destination)
       THEN Result([f EXCEPT ![destination] = NoEntry], FALSE, {"unlink"}, <<>>)
       ELSE IF is_dir(f, destination)
       THEN Result(rmtree(f, destination), FALSE, {"rmtree"}, <<>>)
       ELSE Result(f, FALSE, {}, <<>>)
  ELSE Result(f, FALSE, {}, <<>>)

create_symlink(f, source, destination) ==
  LET m == mkdir(f, Parent(destination))
  IN
  IF m.err THEN m
  ELSE
  LET rm == remove_existing(m.fs, destination)
  IN
  \* os.symlink raises FileExistsError when an entry is left at destination
  IF rm.fs[destination].kind # "none"
  THEN Result(rm.fs, TRUE, m.ops \cup rm.ops, <<>>)
  ELSE Result([rm.fs EXCEPT ![destination] = Link(Resolve(rm.fs, source))], FALSE,
              m.ops \cup rm.ops \cup {"symlink"}, <<>>)

(***************************************************************************)
(* copy_file                                                                *)
(***************************************************************************)
\* shutil.copy2: into the directory when the destination is one
copy_target(f, source, destination) ==
  IF is_dir(f, destination) THEN destination \o <<source[Len(source)]>>
  ELSE destination

copy_file(f, source, destination) ==
  LET m == mkdir(f, Parent(destination))
  IN
  IF m.err THEN m
  ELSE
  LET dst == copy_target(m.fs, source, destination)
      r == Resolve(m.fs, dst)
  IN
  \* shutil.copyfile: SameFileError, then open(src, "rb"), open(dst, "wb")
  IF \/ exists(m.fs, dst) /\ r = Resolve(m.fs, source)
     \/ ~is_file(m.fs, source)
     \/ ~can_open_for_write(m.fs, dst)
  THEN Result(m.fs, TRUE, m.ops, <<>>)
  ELSE Result([m.fs EXCEPT ![r] = File(content_of(m.fs, source))], FALSE,
              m.ops \cup {"copy"}, content_of(m.fs, source))

(***************************************************************************)
(* History of handler calls.                                                *)
(***************************************************************************)
NoCall == [op |-> "none", source |-> <<>>, destination |-> <<>>, err |-> FALSE,
           written |-> <<>>, verdict |-> FALSE]

Call(o, source, destination, r) ==
  [op |-> o, source |-> source, destination |-> destination, err |-> r.err,
   written |-> r.written, verdict |-> FALSE]

EmptyFs == [p \in Paths |-> NoEntry]

(***************************************************************************)
(* SpecAppend: append_to_file called directly, up to MaxCalls times in a    *)
(* row, with the same source (src/a) and destination (home/d/b).  The       *)
(* source is a first line that selects append mode followed by any body of  *)
(* up to MaxBodyLen characters; the destination is absent (with or without  *)
(* its parent directory) or a file of up to MaxDestLen characters.          *)
(***************************************************************************)
TextChars == {"x", " ", NL}

MarkerLines ==
  { APPEND_MODE_TARGET \o <<NL>>,
    <<"#", " ", ">", ">", ">", " ", "A", "P", "P", "E", "N", "D", " ",
      "<", "<", "<", NL>> }

AppendSources ==
  {APPEND_MODE_TARGET} \cup
  {first \o body : first \in MarkerLines, body \in SeqsUpTo(TextChars, MaxBodyLen)}

AppendDestinations ==
  { [hd |-> NoEntry, hdb |-> NoEntry], [hd |-> Dir, hdb |-> NoEntry] } \cup
  { [hd |-> Dir, hdb |-> File(c)] : c \in SeqsUpTo(TextChars, MaxDestLen) }

InitAppend ==
  /\ \E src \in AppendSources, dst \in AppendDestinations :
        fs = [EmptyFs EXCEPT ![SRC] = Dir, ![SA] = File(src), ![HOME] = Dir,
                             ![HD] = dst.hd, ![HDB] = dst.hdb]
  /\ unreadable = {}
  /\ system = "linux"
  /\ input = "y"
  /\ os_name = "Linux"
  /\ pc = "call"
  /\ queue = <<>>
  /\ processed = <<>>
  /\ banner = FALSE
  /\ ops = {}
  /\ fs0 = fs
  /\ prev = fs
  /\ last = NoCall
  /\ ncalls = 0

CallAppend ==
  /\ pc = "call"
  /\ ncalls < MaxCalls
  /\ LET r == append_to_file(fs, SA, HDB)
     IN  /\ fs' = r.fs
         /\ ops' = ops \cup r.ops
         /\ last' = Call("append", SA, HDB, r)
  /\ prev' = fs
  /\ ncalls' = ncalls + 1
  /\ UNCHANGED <<unreadable, system, input, os_name, pc, queue, processed, banner, fs0>>

NextAppend == CallAppend

SpecAppend == InitAppend /\ [][NextAppend]_vars

(***************************************************************************)
(* SpecClassify: should_append called on one source file (src/a).  Its      *)
(* first line is a variant of the marker (exact, spaced and upper-case,     *)
(* tab-separated, one character short, or nothing) between two paddings of  *)
(* up to MaxPad characters, with or without a line end; the rest of the     *)
(* file is empty or holds the marker on the second line.                    *)
(***************************************************************************)
PadChars == {" ", "#", ">"}

MarkerCores ==
  { APPEND_MODE_TARGET,
    <<">", ">", ">", " ", "A", "P", "P", "E", "N", "D", " ", "<", "<", "<">>,
    <<">", ">", ">", "\t", "A", "p", "p", "e", "n", "d", "\t", "<", "<", "<">>,
    <<">", ">", "a", "p", "p", "e", "n", "d", "<", "<", "<">>,
    <<>> }

ClassifySources ==
  {before \o core \o after :
      before \in SeqsUpTo(PadChars, MaxPad), core \in MarkerCores,
      after \in SeqsUpTo(PadChars, MaxPad)}
  \cup
  {before \o core \o after \o <<NL>> \o rest :
      before \in SeqsUpTo(PadChars, MaxPad), core \in MarkerCores,
      after \in SeqsUpTo(PadChars, MaxPad), rest \in {<<>>, APPEND_MODE_TARGET}}

InitClassify ==
  /\ \E src \in ClassifySources :
        fs = [EmptyFs EXCEPT ![SRC] = Dir, ![SA] = File(src), ![HOME] = Dir]
  /\ unreadable = {}
  /\ system = "linux"
  /\ input = "y"
  /\ os_name = "Linux"
  /\ pc = "classify"
  /\ queue = <<>>
  /\ processed = <<>>
  /\ banner = FALSE
  /\ ops = {}
  /\ fs0 = fs
  /\ prev = fs
  /\ last = NoCall
  /\ ncalls = 0

Classify ==
  /\ pc = "classify"
  /\ last' = [NoCall EXCEPT !.op = "should_append", !.source = SA,
                            !.verdict = should_append(fs, SA)]
  /\ pc' = "classified"
  /\ ncalls' = ncalls + 1
  /\ UNCHANGED <<fs, unreadable, system, input, os_name, queue, processed, banner,
                 ops, fs0, prev>>

NextClassify == Classify

SpecClassify == InitClassify /\ [][NextClassify]_vars

(***************************************************************************)
(* Spec: one run of main().                                                 *)
(*                                                                          *)
(* The source tree holds up to two files, src/a and src/d/b; src/a may be a *)
(* symbolic link to src/d/b.  A source file is plain, or starts with the    *)
(* marker line, with or without a body.  Under home, each destination is    *)
(* absent, a file, a directory, or a symbolic link to a source path (live,  *)
(* or dangling when that path is gone): what an earlier run leaves when     *)
(* src/a was a link to src/d/b, or when the source file has been deleted    *)
(* since.  home/d, the parent of one destination, is absent, a directory or *)
(* a file.                                                                  *)
(***************************************************************************)
Systems == {"linux", "darwin", "windows", "freebsd"}

Inputs == {"y", "Y", "yes", ""}

Plain == <<"x", NL>>
MarkerOnly == APPEND_MODE_TARGET \o <<NL>>
MarkerX == APPEND_MODE_TARGET \o <<NL, "x", NL>>

SourceFiles == {File(Plain), File(MarkerOnly), File(MarkerX)}

HomeFiles == {File(<<"x", NL>>), File(<<"y">>)}

HomeLinks == {Link(SA), Link(SDB)}

\* Every entry has a directory above it, and only directories have entries
\* below them.
WellFormed(f) ==
  \A p \in Paths : (Len(p) > 1 /\ f[p].kind # "none") => f[Parent(p)].kind = "dir"

InitialLayouts ==
  [ src : {NoEntry, Dir},
    sa : SourceFiles \cup {NoEntry, Link(SDB)},
    sd : {NoEntry, Dir},
    sdb : SourceFiles \cup {NoEntry},
    ha : HomeFiles \cup HomeLinks \cup {NoEntry, Dir},
    haa : {NoEntry, File(<<"y">>)},
    hd : {NoEntry, Dir, File(<<"y">>)},
    hdb : HomeFiles \cup HomeLinks \cup {NoEntry, Dir} ]

Layout(e) ==
  [EmptyFs EXCEPT ![SRC] = e.src, ![SA] = e.sa, ![SD] = e.sd, ![SDB] = e.sdb,
                  ![HOME] = Dir, ![HA] = e.ha, ![HAA] = e.haa, ![HD] = e.hd,
                  ![HDB] = e.hdb]

InitialFilesystems == {Layout(e) : e \in {x \in InitialLayouts : WellFormed(Layout(x))}}

Init ==
  /\ fs \in InitialFilesystems
  /\ unreadable \in {{}} \cup {{p} : p \in {q \in {SA, SDB} : fs[q].kind = "file"}}
  /\ system \in Systems
  /\ input \in Inputs
  /\ os_name = "none"
  /\ pc = "main"
  /\ queue = <<>>
  /\ processed = <<>>
  /\ banner = FALSE
  /\ ops = {}
  /\ fs0 = fs
  /\ prev = fs
  /\ last = NoCall
  /\ ncalls = 0

detect_os(sys) ==
  IF sys = "linux" THEN "Linux"
  ELSE IF sys = "darwin" THEN "MacOS"
  ELSE IF sys = "windows" THEN "Windows"
  ELSE "raise"

\* A faulty variant: the answer is compared case-insensitively.
confirmed_any_case(answer) == answer \in {"y", "Y"}

\* "if input() != "y": ... return"
confirmed(answer) == answer = "y"

\* The orders in which os_dir.rglob("*") may yield the entries under os_dir:
\* any order that yields a directory before what it holds.  The listing is
\* taken when the loop starts; is_file() is asked of each entry when its
\* turn comes.
rglob(f) ==
  LET found == {p \in {SA, SD, SDB} : f[p].kind # "none"}
  IN  {q \in [1..Cardinality(found) -> found] :
         /\ \A i, j \in DOMAIN q : i # j => q[i] # q[j]
         /\ \A i, j \in DOMAIN q : (q[i] = SD /\ q[j] = SDB) => i < j}

\* "destination = home_dir / rel_path"
destination_of(source_file) == HOME \o SubSeq(source_file, Len(SRC) + 1, Len(source_file))

\* A faulty variant: a failing file is logged and the loop goes on.
after_call_continue(err) == "walk"

\* No handler call is wrapped in try/except: an exception ends the run.
after_call(err) == IF err THEN "error" ELSE "walk"

\* main(): detect_os()
DetectOs ==
  /\ pc = "main"
  /\ os_name' = IF detect_os(system) = "raise" THEN os_name ELSE detect_os(system)
  /\ pc' = IF detect_os(system) = "raise" THEN "error" ELSE "prompt"
  /\ UNCHANGED <<fs, unreadable, system, input, queue, processed, banner, ops, fs0,
                 prev, last, ncalls>>

\* install_dotfiles, up to the loop: the prompt, the check of os_dir, rglob
Prompt ==
  /\ pc = "prompt"
  /\ IF ~confirmed(input) THEN pc' = "aborted" /\ queue' = <<>>
     ELSE IF ~exists(fs, SRC) THEN pc' = "nodir" /\ queue' = <<>>
     ELSE pc' = "walk" /\ queue' \in rglob(fs)
  /\ UNCHANGED <<fs, unreadable, system, input, os_name, processed, banner, ops, fs0,
                 prev, last, ncalls>>

\* "if source_file.is_file()" is false: the entry is passed over
SkipEntry ==
  /\ pc = "walk"
  /\ queue # <<>>
  /\ ~is_file(fs, Head(queue))
  /\ queue' = Tail(queue)
  /\ UNCHANGED <<fs, unreadable, system, input, os_name, pc, processed, banner, ops,
                 fs0, prev, last, ncalls>>

\* should_append raises: the file cannot be opened or decoded
ClassifyRaises ==
  /\ pc = "walk"
  /\ queue # <<>>
  /\ is_file(fs, Head(queue))
  /\ ~can_read(fs, Head(queue))
  /\ last' = [NoCall EXCEPT !.op = "should_append", !.source = Head(queue), !.err = TRUE]
  /\ prev' = fs
  /\ pc' = after_call(TRUE)
  /\ queue' = Tail(queue)
  /\ processed' = Append(processed, Head(queue))
  /\ ncalls' = ncalls + 1
  /\ UNCHANGED <<fs, unreadable, system, input, os_name, banner, ops, fs0>>

\* One iteration of the loop on a file should_append could read.
Handle(o, r) ==
  /\ fs' = r.fs
  /\ ops' = ops \cup r.ops
  /\ last' = Call(o, Head(queue), destination_of(Head(queue)), r)
  /\ prev' = fs
  /\ pc' = after_call(r.err)
  /\ queue' = Tail(queue)
  /\ processed' = Append(processed, Head(queue))
  /\ ncalls' = ncalls + 1
  /\ UNCHANGED <<unreadable, system, input, os_name, banner, fs0>>

AppendFile ==
  /\ pc = "walk"
  /\ queue # <<>>
  /\ can_read(fs, Head(queue))
  /\ should_append(fs, Head(queue))
  /\ Handle("append", append_to_file(fs, Head(queue), destination_of(Head(queue))))

SymlinkFile ==
  /\ pc = "walk"
  /\ queue # <<>>
  /\ can_read(fs, Head(queue))
  /\ ~should_append(fs, Head(queue))
  /\ os_name \in {"Linux", "MacOS"}
  /\ Handle("symlink", create_symlink(fs, Head(queue), destination_of(Head(queue))))

CopyFile ==
  /\ pc = "walk"
  /\ queue # <<>>
  /\ can_read(fs, Head(queue))
  /\ ~should_append(fs, Head(queue))
  /\ os_name \notin {"Linux", "MacOS"}
  /\ Handle("copy", copy_file(fs, Head(queue), destination_of(Head(queue))))

\* The loop is over: "Dotfiles installation complete!"
Finish ==
  /\ pc = "walk"
  /\ queue = <<>>
  /\ banner' = TRUE
  /\ pc' = "done"
  /\ UNCHANGED <<fs, unreadable, system, input, os_name, queue, processed, ops, fs0,
                 prev, last, ncalls>>

Next ==
  \/ DetectOs
  \/ Prompt
  \/ SkipEntry
  \/ ClassifyRaises
  \/ AppendFile
  \/ SymlinkFile
  \/ CopyFile
  \/ Finish

Spec == Init /\ [][Next]_vars

(***************************************************************************)
(* Vocabulary of the properties: lines of a text, stated by position        *)
(* rather than computed by splitting.                                       *)
(***************************************************************************)
\* The positions of s where a line starts.
LineStarts(s) == {i \in 1..Len(s) : i = 1 \/ s[i - 1] = NL}

\* The line of s that starts at position i, without its line end.
LineFrom(s, i) ==
  LET stop == CHOOSE j \in (i - 1)..Len(s) :
                /\ j = Len(s) \/ s[j + 1] = NL
                /\ \A k \in i..j : s[k] # NL
  IN  SubSeq(s, i, stop)

\* The lines of s, in order.
LinesSeq(s) ==
  LET st == LineStarts(s)
  IN  [k \in 1..Cardinality(st) |->
         LineFrom(s, CHOOSE i \in st : Cardinality({j \in st : j < i}) = k - 1)]

LineSet(s) == {LineFrom(s, i) : i \in LineStarts(s)}

Blank(line) == \A i \in 1..Len(line) : line[i] \in Whitespace

Count(sq, x) == Cardinality({i \in 1..Len(sq) : sq[i] = x})

\* The text of a regular file at p in f; empty when there is none.
TextAt(f, p) == IF f[p].kind = "file" THEN f[p].content ELSE <<>>

\* The body of the source of the last call: everything after its first line.
BodyOf(f, source) ==
  LET c == f[source].content
  IN  IF \E i \in 1..Len(c) : c[i] = NL
      THEN SubSeq(c, 1 + (CHOOSE i \in 1..Len(c) :
                            c[i] = NL /\ \A j \in 1..(i - 1) : c[j] # NL), Len(c))
      ELSE <<>>

\* The non-blank body lines that are not lines of the old destination.
NewLines(body, old) ==
  SelectSeq(LinesSeq(body), LAMBDA l : ~Blank(l) /\ l \notin LineSet(old))

AppendCalled == last.op = "append" /\ ~last.err

\* C1: a second append_to_file with the same source, against the destination
\* the first call left, changes nothing: the filesystem after the second
\* call is the one before it.
C1_Idempotent == ncalls >= 2 => fs = prev

\* C1's case: the first call appended to an existing file that did not end
\* in a newline, and the second call has run.
C1_Witness ==
  /\ ncalls = 2
  /\ fs0[HDB].kind = "file"
  /\ fs0[HDB].content # <<>>
  /\ ~endswith_newline(fs0[HDB].content)
  /\ fs[HDB].content # fs0[HDB].content

\* C5: when the body has no non-blank line, append_to_file changes nothing
\* in the filesystem: no file and no parent directory is created.
C5_NoChangeOnEmptyBody ==
  (AppendCalled /\ \A l \in LineSet(BodyOf(prev, SA)) : Blank(l)) => fs = prev

\* C6: when there is a new line, the destination afterwards is the old
\* content, then a newline iff the old content was non-empty and did not end
\* in one, then the new lines joined by single newlines, then a newline iff
\* the body ended with one.
C6_AppendedContent ==
  LET body == BodyOf(prev, SA)
      old == TextAt(prev, HDB)
      now == TextAt(fs, HDB)
      new == NewLines(body, old)
      s == IF old # <<>> /\ old[Len(old)] # NL THEN 1 ELSE 0
      t == IF body # <<>> /\ body[Len(body)] = NL THEN 1 ELSE 0
      mid == SubSeq(now, Len(old) + s + 1, Len(now) - t)
  IN  (AppendCalled /\ new # <<>>) =>
        /\ fs[HDB].kind = "file"
        /\ Len(now) >= Len(old) + s + t + 1
        /\ SubSeq(now, 1, Len(old)) = old
        /\ s = 1 => now[Len(old) + 1] = NL
        /\ t = 1 => now[Len(now)] = NL
        /\ mid[Len(mid)] # NL
        /\ LinesSeq(mid) = new
        /\ last.written = SubSeq(now, Len(old) + 1, Len(now))

\* C6's case: two new lines were appended to a file that did not end in a
\* newline, after a separating newline and followed by a final newline.
C6_Witness ==
  /\ ncalls = 1
  /\ AppendCalled
  /\ Len(NewLines(BodyOf(prev, SA), TextAt(prev, HDB))) >= 2
  /\ prev[HDB].kind = "file"
  /\ prev[HDB].content # <<>>
  /\ ~endswith_newline(prev[HDB].content)
  /\ endswith_newline(BodyOf(prev, SA))
  /\ Len(fs[HDB].content) > Len(prev[HDB].content)

\* The lines the last call wrote.
WrittenLines == SelectSeq(LinesSeq(last.written), LAMBDA l : l # <<>>)

Fold ==
  [c \in {"A", "P", "E", "N", "D", "X"} |->
     CASE c = "A" -> "a" [] c = "P" -> "p" [] c = "E" -> "e"
       [] c = "N" -> "n" [] c = "D" -> "d" [] c = "X" -> "x"]

\* The first line of the file at p with its whitespace removed, lower-cased.
NormalFirstLine(f, p) ==
  LET c == f[p].content
      first == IF c = <<>> THEN <<>> ELSE LineFrom(c, 1)
      solid == SelectSeq(first, LAMBDA ch : ch \notin Whitespace)
  IN  [i \in 1..Len(solid) |-> IF solid[i] \in DOMAIN Fold THEN Fold[solid[i]] ELSE solid[i]]

\* The token stands in n from position i on.
TokenAt(n, i) ==
  /\ i + Len(APPEND_MODE_TARGET) - 1 <= Len(n)
  /\ \A k \in 1..Len(APPEND_MODE_TARGET) : n[i + k - 1] = APPEND_MODE_TARGET[k]

Classified == last.op = "should_append"

ParentUsable ==
  \A d \in Paths : IsUnder(last.destination, d) => prev[d].kind \in {"none", "dir"}

SourceTree == {SRC, SA, SD, SDB}

\* C2: on Linux/macOS, whatever was at the destination before (nothing, a
\* file, a live or dangling symlink, a directory), create_symlink removes it
\* and leaves the destination a symlink to the source's resolved path.
C2_SymlinkReplacesAnyEntry ==
  (last.op = "symlink" /\ ParentUsable) =>
     /\ ~last.err
     /\ fs[last.destination] = Link(Resolve(fs, last.source))

\* C3: on Windows, whatever was at the destination before is replaced: the
\* destination path itself is afterwards a regular file with the source's
\* content.
C3_CopyReplacesAnyEntry ==
  (last.op = "copy" /\ ParentUsable) =>
     /\ ~last.err
     /\ fs[last.destination] = File(content_of(prev, last.source))

\* C8: nothing in the filesystem is mutated unless detect_os returned a
\* platform and the answer at the prompt was exactly "y"; an unsupported
\* platform ends in an error, any other answer ends the run normally, and
\* both leave the filesystem as it was.
C8_NoMutationWithoutConsent ==
  /\ (ops # {} \/ fs # fs0) =>
        (system \in {"linux", "darwin", "windows"} /\ input = "y")
  /\ (system \notin {"linux", "darwin", "windows"} /\ pc # "main") =>
        (pc = "error" /\ fs = fs0 /\ ops = {})
  /\ (system \in {"linux", "darwin", "windows"} /\ input # "y"
        /\ pc \notin {"main", "prompt"}) =>
        (pc = "aborted" /\ fs = fs0 /\ ops = {} /\ ncalls = 0)

\* C8's case: the answer was "Y", the source tree held a file to install,
\* and the run ended without touching anything.
C8_Witness ==
  /\ pc = "aborted"
  /\ input = "Y"
  /\ is_file(fs, SA)
  /\ os_name = "Windows"

\* C9: the entries are taken one after another in traversal order; once a
\* call for a file has raised, the run is in its error state, the banner is
\* not printed, the files not yet reached are never touched, nothing further
\* happens, and the failing step leaves the destinations of the files
\* handled before it as they were.
C9_FirstFailureAborts ==
  /\ [](last.err =>
          /\ pc = "error"
          /\ ~banner
          /\ \A i \in 1..Len(queue) :
                fs[destination_of(queue[i])] = fs0[destination_of(queue[i])])
  /\ [][/\ ~last.err
        /\ (pc = "walk" /\ queue # <<>>) =>
              /\ queue' = Tail(queue)
              /\ processed' \in {processed, Append(processed, Head(queue))}
        /\ last'.err =>
              \A i \in 1..Len(processed) :
                 fs'[destination_of(processed[i])] = fs[destination_of(processed[i])]
        /\ banner' => (queue = <<>> /\ pc' = "done")]_vars

\* C9's case: the second file failed after the first was installed, and the
\* first file's installation is still in place.
C9_Witness ==
  /\ pc = "error"
  /\ last.err
  /\ Len(processed) = 2
  /\ fs[destination_of(processed[1])] # fs0[destination_of(processed[1])]
  /\ ~banner

\* C10: a run never changes, creates or removes anything under the source
\* tree.
C10_SourceTreeUntouched == \A p \in SourceTree : fs[p] = fs0[p]

====
